---- MODULE Spec2Model ----
(***************************************************************************)
(* A model of the job-data pipeline of helperscripts/concat_jobs.py:       *)
(* load_csv_files, normalize_job_schemas, parse_categorized_data (with     *)
(* parse_json_column), build_unified_structure and the write of main().    *)
(* With it, the projection of helperscripts/concat_jobs_freshdataset.py    *)
(* and the Generate Metadata and Clear Metadata buttons of main.py.        *)
(*                                                                         *)
(* Python values are records tagged with their type in the field py, so    *)
(* that None, NaN, numbers, strings, dicts and lists stay distinct and     *)
(* can be compared with each other.  A Python dict with a fixed set of     *)
(* keys (a DataFrame row, a job entry, a lookup entry) is a TLA+ record,   *)
(* and "key in dict" is membership in its DOMAIN.                          *)
(***************************************************************************)
EXTENDS Integers, Sequences, FiniteSets, TLC

VARIABLES
    csv,            \* the four relations pd.read_csv returns for the data directory
    files,          \* the JSON documents on disk, by path (Missing when absent)
    pc,             \* position of main() of concat_jobs.py
    args,           \* the parsed command line of the run
    jobs_active,    \* locals of main()
    jobs_archived,
    employers,
    jobsources,
    all_jobs,
    unified,
    value,          \* argument of a direct call of parse_json_column
    outcome,        \* what that call returned or raised
    projection,     \* position and locals of main() of concat_jobs_freshdataset.py
    viewer          \* the session of the viewer, main() of main.py

vars == <<csv, files, pc, args, jobs_active, jobs_archived, employers,
          jobsources, all_jobs, unified, value, outcome, projection, viewer>>

-----------------------------------------------------------------------------
(* Bounds of the model. *)

\* most rows of the active relation
MaxActive == 2
\* most rows of the archived relation
MaxArchived == 1
\* longest string of characters handed to parse_json_column directly
MaxJsonLen == 4

-----------------------------------------------------------------------------
(* Python values. *)

None == [py |-> "None"]
NaN == [py |-> "NaN"]
Num(n) == [py |-> "num", n |-> n]
Str(s) == [py |-> "str", s |-> s]
Bool(b) == [py |-> "bool", b |-> b]
\* a str whose characters matter (a JSON payload): cs is its sequence of characters
Chars(cs) == [py |-> "str", cs |-> cs]
\* a dict or a list, named by its JSON text
Dict(cs) == [py |-> "dict", cs |-> cs]
List(cs) == [py |-> "list", cs |-> cs]

\* pd.isna / pd.notna of a scalar: None and NaN are missing
isna(x) == x = None \/ x = NaN
notna(x) == ~isna(x)

\* int(x) of a number keeps its (integral) value; bool(x) of a bool is itself and
\* of a number is "not zero"
int(x) == Num(x.n)
bool(x) == IF x.py = "bool" THEN x.b ELSE x.n # 0

\* a function's result: the value it returned, or the exception it raised
Returned(v) == [exc |-> "none", ret |-> v]
Raised(e) == [exc |-> e, ret |-> None]

-----------------------------------------------------------------------------
(* json.loads on a string over the characters { } [ ] " : , 1 a.  A scan    *)
(* returns whether a value starts at s[i] and the index after it.           *)

Fail == [ok |-> FALSE, next |-> 0, kind |-> "none"]
At(s, i) == IF i >= 1 /\ i <= Len(s) THEN s[i] ELSE "eof"

RECURSIVE ScanDigits(_, _)
ScanDigits(s, i) == IF At(s, i) = "1" THEN ScanDigits(s, i + 1) ELSE i

RECURSIVE ScanQuote(_, _)
\* the index of the closing quote of a string whose opening quote is before i
ScanQuote(s, i) ==
    IF i > Len(s) THEN 0
    ELSE IF s[i] = "\"" THEN i
    ELSE ScanQuote(s, i + 1)

ScanString(s, i) ==
    IF At(s, i) # "\"" THEN Fail
    ELSE LET j == ScanQuote(s, i + 1)
         IN  IF j = 0 THEN Fail ELSE [ok |-> TRUE, next |-> j + 1, kind |-> "str"]

RECURSIVE ScanValue(_, _)
RECURSIVE ScanElements(_, _)
RECURSIVE ScanMembers(_, _)

\* value ("," value)* "]" starting at s[i]
ScanElements(s, i) ==
    LET v == ScanValue(s, i)
    IN  IF ~v.ok THEN Fail
        ELSE IF At(s, v.next) = "," THEN ScanElements(s, v.next + 1)
        ELSE IF At(s, v.next) = "]" THEN [ok |-> TRUE, next |-> v.next + 1, kind |-> "list"]
        ELSE Fail

\* string ":" value ("," string ":" value)* "}" starting at s[i]
ScanMembers(s, i) ==
    LET k == ScanString(s, i)
    IN  IF ~k.ok \/ At(s, k.next) # ":" THEN Fail
        ELSE LET v == ScanValue(s, k.next + 1)
             IN  IF ~v.ok THEN Fail
                 ELSE IF At(s, v.next) = "," THEN ScanMembers(s, v.next + 1)
                 ELSE IF At(s, v.next) = "}" THEN [ok |-> TRUE, next |-> v.next + 1, kind |-> "dict"]
                 ELSE Fail

ScanValue(s, i) ==
    CASE At(s, i) = "{" ->
            IF At(s, i + 1) = "}" THEN [ok |-> TRUE, next |-> i + 2, kind |-> "dict"]
            ELSE ScanMembers(s, i + 1)
      [] At(s, i) = "[" ->
            IF At(s, i + 1) = "]" THEN [ok |-> TRUE, next |-> i + 2, kind |-> "list"]
            ELSE ScanElements(s, i + 1)
      [] At(s, i) = "\"" -> ScanString(s, i)
      [] At(s, i) = "1" -> [ok |-> TRUE, next |-> ScanDigits(s, i), kind |-> "num"]
      [] OTHER -> Fail

RECURSIVE DigitsValue(_)
\* the number a string of digits 1 denotes
DigitsValue(s) == IF s = <<>> THEN 0 ELSE 10 * DigitsValue(SubSeq(s, 1, Len(s) - 1)) + 1

\* json.loads(s) for a str s: the value, or JSONDecodeError
json_loads(s) ==
    LET v == ScanValue(s, 1)
    IN  IF ~v.ok \/ v.next # Len(s) + 1 THEN Raised("JSONDecodeError")
        ELSE CASE v.kind = "dict" -> Returned(Dict(s))
               [] v.kind = "list" -> Returned(List(s))
               [] v.kind = "str" -> Returned(Chars(SubSeq(s, 2, Len(s) - 1)))
               [] OTHER -> Returned(Num(DigitsValue(s)))

RECURSIVE CountTop(_, _, _)
\* the commas of s from index i on that are at nesting depth d = 1
CountTop(s, i, d) ==
    IF i > Len(s) THEN 0
    ELSE LET c == s[i]
             d2 == IF c \in {"[", "{"} THEN d + 1
                   ELSE IF c \in {"]", "}"} THEN d - 1 ELSE d
         IN  (IF c = "," /\ d = 1 THEN 1 ELSE 0) + CountTop(s, i + 1, d2)

\* len(x) of a list
ListLen(x) == IF Len(x.cs) = 2 THEN 0 ELSE CountTop(x.cs, 1, 0) + 1

-----------------------------------------------------------------------------
(* parse_json_column *)

\* `pd.isna(value) or value == ""`: pd.isna of a list is an array of booleans,
\* one per element, and the truth value of an array of two or more is a ValueError;
\* of one element (here never a missing one) it is False.
IsnaOrEmpty(v) ==
    IF v.py = "list"
    THEN IF ListLen(v) >= 2 THEN Raised("ValueError") ELSE Returned(FALSE)
    ELSE Returned(isna(v) \/ v = Chars(<<>>))

parse_json_column(v) ==
    LET c == IsnaOrEmpty(v)
    IN  IF c.exc # "none" THEN Raised(c.exc)
        ELSE IF c.ret THEN Returned(None)
        ELSE IF v.py = "dict" THEN Returned(v)
        ELSE IF v.py # "str" THEN Returned(None)      \* json.loads: TypeError, caught
        ELSE LET r == json_loads(v.cs)
             IN  IF r.exc = "JSONDecodeError" THEN Returned(None) ELSE r

-----------------------------------------------------------------------------
(* DataFrames: the set of column names and the rows, each a record over    *)
(* the columns.                                                            *)

DataFrame(cols, rws) == [columns |-> cols, rows |-> rws]

\* the frame of a CSV file with the given rows: its columns are those any row
\* names, and a row without a value for a column has the empty cell, read as NaN
Filled(row, cols) == [c \in cols |-> IF c \in DOMAIN row THEN row[c] ELSE NaN]
FrameOf(rws, cols) ==
    LET all == cols \cup UNION {DOMAIN rws[i] : i \in 1..Len(rws)}
    IN  DataFrame(all, [i \in 1..Len(rws) |-> Filled(rws[i], all)])

\* df[col] = v for a scalar v: the column is added or overwritten in every row
WithColumn(df, col, v) ==
    DataFrame(df.columns \cup {col},
              [i \in 1..Len(df.rows) |->
                  [c \in df.columns \cup {col} |-> IF c = col THEN v ELSE df.rows[i][c]]])

\* pd.concat([a, b], ignore_index=True): the rows of a, then those of b, over the
\* union of the columns, NaN where a frame has no such column
concat(a, b) ==
    LET cols == a.columns \cup b.columns
    IN  DataFrame(cols, [i \in 1..Len(a.rows) |-> Filled(a.rows[i], cols)]
                        \o [i \in 1..Len(b.rows) |-> Filled(b.rows[i], cols)])

-----------------------------------------------------------------------------
(* normalize_job_schemas *)

AddOriginalId(active) ==
    IF "original_id" \notin active.columns
    THEN WithColumn(active, "original_id", None)
    ELSE active

TagActive(active) == WithColumn(active, "source_table", Str("active"))
TagArchived(archived) == WithColumn(archived, "source_table", Str("archived"))

\* a variant that concatenates the archived rows first
normalize_archived_first(active, archived) ==
    concat(TagArchived(archived), TagActive(AddOriginalId(active)))

normalize_job_schemas(active, archived) ==
    concat(TagActive(AddOriginalId(active)), TagArchived(archived))

-----------------------------------------------------------------------------
(* parse_categorized_data *)

\* Series.apply builds the new column from the results: a column of numbers and
\* None only is inferred as float64, where None becomes NaN
InferColumn(results) ==
    IF /\ \A i \in 1..Len(results) : results[i].py \in {"None", "num"}
       /\ \E i \in 1..Len(results) : results[i].py = "num"
    THEN [i \in 1..Len(results) |-> IF results[i] = None THEN NaN ELSE results[i]]
    ELSE results

parse_categorized_data(jobs) ==
    LET outs == [i \in 1..Len(jobs.rows) |-> parse_json_column(jobs.rows[i].CategorizedData)]
    IN  IF \E i \in 1..Len(outs) : outs[i].exc # "none"
        THEN Raised((CHOOSE i \in 1..Len(outs) :
                        /\ outs[i].exc # "none"
                        /\ \A k \in 1..(i - 1) : outs[k].exc = "none").exc)
        ELSE LET col == InferColumn([i \in 1..Len(outs) |-> outs[i].ret])
             IN  Returned(DataFrame(jobs.columns,
                     [i \in 1..Len(jobs.rows) |->
                         [jobs.rows[i] EXCEPT !.CategorizedData = col[i]]]))

-----------------------------------------------------------------------------
(* build_unified_structure *)

\* A Python dict keyed by identifiers, in insertion order: a sequence of
\* (key, value) pairs.  NaN is equal to no key, itself included.
KeyEq(a, b) == a = b /\ a # NaN
In(key, lookup) == \E i \in 1..Len(lookup) : KeyEq(lookup[i].k, key)
Get(lookup, key) == lookup[CHOOSE i \in 1..Len(lookup) : KeyEq(lookup[i].k, key)].v
\* lookup[key] = v: a key already there keeps its place and takes the new value
Put(lookup, key, v) ==
    IF In(key, lookup)
    THEN [i \in 1..Len(lookup) |->
             IF KeyEq(lookup[i].k, key) THEN [k |-> lookup[i].k, v |-> v] ELSE lookup[i]]
    ELSE Append(lookup, [k |-> key, v |-> v])
Values(lookup) == [i \in 1..Len(lookup) |-> lookup[i].v]

\* a variant that gives the empty string for a missing value
OrEmpty(x) == IF notna(x) THEN x ELSE Str("")

\* `x if pd.notna(x) else None`
OrNone(x) == IF notna(x) THEN x ELSE None

EmployerEntry(row) ==
    [id |-> row.id,
     name |-> OrNone(row.name),
     alt_name |-> OrNone(row.alt_name),
     logo_url |-> OrNone(row.logo_url),
     fh |-> IF notna(row.fh) THEN Bool(bool(row.fh)) ELSE Bool(FALSE),
     jobscount |-> IF notna(row.jobscount) THEN int(row.jobscount) ELSE Num(0),
     jobscount_online |-> IF notna(row.jobscount_online) THEN int(row.jobscount_online) ELSE Num(0)]

RECURSIVE BuildEmployerLookup(_, _)
\* the loop over employers.iterrows(), from row i on
BuildEmployerLookup(rws, i) ==
    IF i = 0 THEN <<>>
    ELSE Put(BuildEmployerLookup(rws, i - 1), rws[i].id, EmployerEntry(rws[i]))

JobsourceEntry(row) ==
    [jobsource_id |-> row.jobsource_id,
     jobsource |-> OrNone(row.jobsource),
     description |-> OrNone(row.description)]

RECURSIVE BuildJobsourceLookup(_, _)
\* the loop over jobsources.iterrows(), from row i on
BuildJobsourceLookup(rws, i) ==
    IF i = 0 THEN <<>>
    ELSE Put(BuildJobsourceLookup(rws, i - 1), rws[i].jobsource_id, JobsourceEntry(rws[i]))

\* a dict without keys
EmptyDict == [k \in {} |-> None]

Flag(x) == IF notna(x) THEN Bool(bool(x)) ELSE Bool(FALSE)

BaseEntry(row) ==
    [id |-> IF notna(row.id) THEN int(row.id) ELSE None,
     job_title |-> OrNone(row.job_title),
     url |-> OrNone(row.url),
     department |-> OrNone(row.department),
     level |-> OrNone(row.level),
     location |-> OrNone(row.location),
     schedule |-> OrNone(row.schedule),
     main |-> Flag(row.main),
     sync |-> Flag(row.sync),
     ignore |-> Flag(row.ignore),
     removed |-> Flag(row.removed),
     manual |-> Flag(row.manual),
     Archived |-> Flag(row.Archived),
     ideal |-> Flag(row.ideal),
     created_at |-> OrNone(row.created_at),
     updated_at |-> OrNone(row.updated_at),
     source_table |-> row.source_table,
     CategorizedData |-> row.CategorizedData,
     clicks |-> IF notna(row.clicks) THEN int(row.clicks) ELSE Num(0)]

DescriptionPart(row, include_descriptions) ==
    IF include_descriptions THEN "description" :> OrNone(row.description) ELSE EmptyDict

EmbeddingPart(row, include_embeddings) ==
    IF include_embeddings THEN "job_embedding" :> OrNone(row.job_embedding) ELSE EmptyDict

\* row.get("original_id") is None when the row has no such column
OriginalIdPart(row) ==
    IF "original_id" \in DOMAIN row /\ notna(row.original_id)
    THEN "original_id" :> int(row.original_id)
    ELSE EmptyDict

\* a variant that embeds a ref for every key that is present, found or not
EmployerPartKeyOnly(row, employer_lookup) ==
    LET employer_id == row.employer_id
    IN  IF notna(employer_id)
        THEN LET employer == IF In(employer_id, employer_lookup)
                             THEN Get(employer_lookup, employer_id)
                             ELSE [id |-> employer_id, name |-> None,
                                   alt_name |-> None, logo_url |-> None]
             IN  "employer" :> [id |-> employer.id,
                                name |-> employer.name,
                                alt_name |-> employer.alt_name,
                                logo_url |-> employer.logo_url]
        ELSE ("employer" :> None) @@ ("employer_id" :> OrNone(employer_id))

\* a variant that embeds the whole lookup entry
EmployerPartWhole(row, employer_lookup) ==
    LET employer_id == row.employer_id
    IN  IF notna(employer_id) /\ In(employer_id, employer_lookup)
        THEN "employer" :> Get(employer_lookup, employer_id)
        ELSE ("employer" :> None) @@ ("employer_id" :> OrNone(employer_id))

EmployerPart(row, employer_lookup) ==
    LET employer_id == row.employer_id
    IN  IF notna(employer_id) /\ In(employer_id, employer_lookup)
        THEN LET employer == Get(employer_lookup, employer_id)
             IN  "employer" :> [id |-> employer.id,
                                name |-> employer.name,
                                alt_name |-> employer.alt_name,
                                logo_url |-> employer.logo_url]
        ELSE ("employer" :> None) @@ ("employer_id" :> OrNone(employer_id))

\* a variant that does not keep the key of a source it did not find
JobsourcePartNoKey(row, jobsource_lookup) ==
    LET jobsource_id == row.jobsource_id
    IN  IF notna(jobsource_id) /\ In(jobsource_id, jobsource_lookup)
        THEN LET source == Get(jobsource_lookup, jobsource_id)
             IN  "jobsource" :> [jobsource_id |-> source.jobsource_id,
                                 jobsource |-> source.jobsource]
        ELSE "jobsource" :> None

\* a variant that embeds the whole lookup entry, description included
JobsourcePartFull(row, jobsource_lookup) ==
    LET jobsource_id == row.jobsource_id
    IN  IF notna(jobsource_id) /\ In(jobsource_id, jobsource_lookup)
        THEN "jobsource" :> Get(jobsource_lookup, jobsource_id)
        ELSE ("jobsource" :> None) @@ ("jobsource_id" :> OrNone(jobsource_id))

JobsourcePart(row, jobsource_lookup) ==
    LET jobsource_id == row.jobsource_id
    IN  IF notna(jobsource_id) /\ In(jobsource_id, jobsource_lookup)
        THEN LET source == Get(jobsource_lookup, jobsource_id)
             IN  "jobsource" :> [jobsource_id |-> source.jobsource_id,
                                 jobsource |-> source.jobsource]
        ELSE ("jobsource" :> None) @@ ("jobsource_id" :> OrNone(jobsource_id))

JobEntry(row, employer_lookup, jobsource_lookup, include_embeddings, include_descriptions) ==
    BaseEntry(row)
        @@ DescriptionPart(row, include_descriptions)
        @@ EmbeddingPart(row, include_embeddings)
        @@ OriginalIdPart(row)
        @@ EmployerPart(row, employer_lookup)
        @@ JobsourcePart(row, jobsource_lookup)

\* a variant that skips the rows without an embedding when embeddings are asked for
JobsListFiltered(jobs, employer_lookup, jobsource_lookup, include_embeddings, include_descriptions) ==
    LET kept == SelectSeq(jobs.rows, LAMBDA r : ~include_embeddings \/ notna(r.job_embedding))
    IN  [i \in 1..Len(kept) |->
            JobEntry(kept[i], employer_lookup, jobsource_lookup,
                     include_embeddings, include_descriptions)]

\* the rows the loop over jobs.iterrows() visits, in its order
JobsList(jobs, employer_lookup, jobsource_lookup, include_embeddings, include_descriptions) ==
    [i \in 1..Len(jobs.rows) |->
        JobEntry(jobs.rows[i], employer_lookup, jobsource_lookup,
                 include_embeddings, include_descriptions)]

\* a variant that counts the records of every provenance
CountAll(jobs_list, table) == Len(jobs_list)

Count(jobs_list, table) ==
    Cardinality({i \in 1..Len(jobs_list) : jobs_list[i].source_table = Str(table)})

\* pd.Timestamp.now().isoformat() at time now
Timestamp(now) == Str(now)

\* a variant with a second field that holds the time of the run
MetadataStamped(jobs_list, employer_lookup, jobsource_lookup, include_embeddings, include_descriptions, now) ==
    [generated_at |-> Timestamp(now),
     finished_at |-> Timestamp(now),
     total_jobs |-> Num(Len(jobs_list)),
     active_jobs |-> Num(Count(jobs_list, "active")),
     archived_jobs |-> Num(Count(jobs_list, "archived")),
     total_employers |-> Num(Len(employer_lookup)),
     total_jobsources |-> Num(Len(jobsource_lookup)),
     include_embeddings |-> Bool(include_embeddings),
     include_descriptions |-> Bool(include_descriptions)]

Metadata(jobs_list, employer_lookup, jobsource_lookup, include_embeddings, include_descriptions, now) ==
    [generated_at |-> Timestamp(now),
     total_jobs |-> Num(Len(jobs_list)),
     active_jobs |-> Num(Count(jobs_list, "active")),
     archived_jobs |-> Num(Count(jobs_list, "archived")),
     total_employers |-> Num(Len(employer_lookup)),
     total_jobsources |-> Num(Len(jobsource_lookup)),
     include_embeddings |-> Bool(include_embeddings),
     include_descriptions |-> Bool(include_descriptions)]

\* row[col] raises KeyError when the frame has no column col; the columns the
\* loop over the jobs reads with row[...]
JobColumnsRead(include_embeddings, include_descriptions) ==
    {"id", "job_title", "url", "department", "level", "location", "schedule",
     "main", "sync", "ignore", "removed", "manual", "Archived", "ideal",
     "created_at", "updated_at", "source_table", "CategorizedData", "clicks",
     "employer_id", "jobsource_id"}
        \cup (IF include_descriptions THEN {"description"} ELSE {})
        \cup (IF include_embeddings THEN {"job_embedding"} ELSE {})
EmployerColumnsRead ==
    {"id", "name", "alt_name", "logo_url", "fh", "jobscount", "jobscount_online"}
JobsourceColumnsRead == {"jobsource_id", "jobsource", "description"}

\* a loop over the rows of df reads the columns cols of every row
Reads(df, cols) == Len(df.rows) = 0 \/ cols \subseteq df.columns

\* build_unified_structure returns; otherwise it raises KeyError
Builds(jobs, emps, srcs, include_embeddings, include_descriptions) ==
    /\ Reads(emps, EmployerColumnsRead)
    /\ Reads(srcs, JobsourceColumnsRead)
    /\ Reads(jobs, JobColumnsRead(include_embeddings, include_descriptions))

build_unified_structure(jobs, emps, srcs, include_embeddings, include_descriptions, now) ==
    LET employer_lookup == BuildEmployerLookup(emps.rows, Len(emps.rows))
        jobsource_lookup == BuildJobsourceLookup(srcs.rows, Len(srcs.rows))
        jobs_list == JobsList(jobs, employer_lookup, jobsource_lookup,
                              include_embeddings, include_descriptions)
    IN  [metadata |-> Metadata(jobs_list, employer_lookup, jobsource_lookup,
                               include_embeddings, include_descriptions, now),
         employers |-> Values(employer_lookup),
         jobsources |-> Values(jobsource_lookup),
         jobs |-> jobs_list]

-----------------------------------------------------------------------------
(* The input relations.  Rows are drawn from small pools that cover the    *)
(* cases of each column: a key that resolves, one that does not, a missing *)
(* one; a payload that is missing, a JSON object, a JSON array, a JSON     *)
(* scalar, not JSON; a relation with and without the column original_id.   *)

JobColumns ==
    {"id", "job_title", "url", "department", "level", "location", "schedule",
     "main", "sync", "ignore", "removed", "manual", "Archived", "ideal",
     "created_at", "updated_at", "CategorizedData", "clicks", "description",
     "job_embedding", "employer_id", "jobsource_id"}
EmployerColumns ==
    {"id", "name", "alt_name", "logo_url", "fh", "jobscount", "jobscount_online"}
JobsourceColumns == {"jobsource_id", "jobsource", "description"}

JobRow(id, title, employer_id, jobsource_id, categorized, description, embedding, clicks, flag) ==
    [id |-> Num(id), job_title |-> title, url |-> Str("https://jobs.example/x"),
     department |-> NaN, level |-> Str("Senior"), location |-> Str("Berlin"),
     schedule |-> NaN, main |-> flag, sync |-> Bool(FALSE), ignore |-> NaN,
     removed |-> Bool(FALSE), manual |-> flag, Archived |-> NaN, ideal |-> Bool(TRUE),
     created_at |-> Str("2025-01-01"), updated_at |-> NaN,
     CategorizedData |-> categorized, clicks |-> clicks, description |-> description,
     job_embedding |-> embedding, employer_id |-> employer_id, jobsource_id |-> jobsource_id]

ObjectText == <<"{", "\"", "a", "\"", ":", "1", "}">>
InvalidText == <<"{", "a">>
StringText == <<"\"", "a", "\"">>
ArrayText == <<"[", "1", "]">>

Engineer ==
    JobRow(1, Str("Engineer"), Num(10), NaN, Chars(ObjectText),
           Str("Build things"), Str("[0.1]"), Num(5), Bool(TRUE))

ActivePool ==
    { Engineer,
      JobRow(2, NaN, Num(12), Num(1), Chars(InvalidText),
             NaN, NaN, NaN, NaN) @@ ("original_id" :> NaN),
      JobRow(3, Str("Analyst"), NaN, Num(3), Chars(StringText),
             Str("Count things"), NaN, Num(0), Bool(FALSE)) @@ ("original_id" :> Num(99)) }

ArchivedPool ==
    { JobRow(4, Str("Clerk"), Num(10), Num(1), NaN,
             Str("File things"), Str("[0.2]"), Num(7), Bool(TRUE)) @@ ("original_id" :> Num(99)),
      JobRow(5, Str("Cook"), Num(11), NaN, Chars(ArrayText),
             NaN, NaN, NaN, NaN) @@ ("original_id" :> NaN) }

EmployerRow(id, name, alt_name, logo_url, fh, jobscount) ==
    [id |-> Num(id), name |-> name, alt_name |-> alt_name, logo_url |-> logo_url,
     fh |-> fh, jobscount |-> jobscount, jobscount_online |-> NaN]

Acme == EmployerRow(10, Str("Acme"), Str("ACME AG"), Str("logos/acme.png"), Bool(TRUE), Num(3))
AcmeAgain == EmployerRow(10, Str("Acme Holding"), NaN, NaN, NaN, NaN)
Bolt == EmployerRow(11, Str("Bolt"), NaN, Str("https://bolt.example/l.png"), Bool(FALSE), Num(1))


Board == [jobsource_id |-> Num(1), jobsource |-> Str("Board"), description |-> Str("The job board")]
BoardAgain == [jobsource_id |-> Num(1), jobsource |-> Str("Board 2"), description |-> NaN]
Feed == [jobsource_id |-> Num(2), jobsource |-> NaN, description |-> NaN]

\* the employer and the jobsource relation of a run: both empty, one employer and
\* no source, several rows some of which share an identifier
ReferenceRelations ==
    { [e |-> <<>>, s |-> <<>>],
      [e |-> <<Acme>>, s |-> <<>>],
      [e |-> <<Acme, Bolt, AcmeAgain>>, s |-> <<BoardAgain, Board, Feed>>] }

\* the sequences over S of length at most n
SeqsUpTo(S, n) == UNION {[1..k -> S] : k \in 0..n}

\* the rows of the four relations of a data directory; with an empty jobsource
\* relation, one job at most
Directories ==
    { d \in SeqsUpTo(ActivePool, MaxActive) \X SeqsUpTo(ArchivedPool, MaxArchived)
                \X ReferenceRelations :
        d[3].s = <<>> => Len(d[1]) + Len(d[2]) <= 1 }

Inputs ==
    { [jobs_rows |-> FrameOf(d[1], JobColumns),
       jobs_archiviert_rows |-> FrameOf(d[2], JobColumns \cup {"original_id"}),
       employers_rows |-> FrameOf(d[3].e, EmployerColumns),
       jobsource_rows |-> FrameOf(d[3].s, JobsourceColumns)] :
        d \in Directories }

\* a file that is not there
Missing == [py |-> "missing"]

\* data directories a run fails on: one whose job relations were exported
\* without the job_embedding column, which fails in build_unified_structure
\* when embeddings are asked for, and one with no employers_rows.csv
Without(row, col) == [c \in DOMAIN row \ {col} |-> row[c]]
NoEmbeddingColumn ==
    [jobs_rows |-> FrameOf(<<Without(Engineer, "job_embedding")>>,
                           JobColumns \ {"job_embedding"}),
     jobs_archiviert_rows |->
         FrameOf(<<>>, (JobColumns \cup {"original_id"}) \ {"job_embedding"}),
     employers_rows |-> FrameOf(<<Acme>>, EmployerColumns),
     jobsource_rows |-> FrameOf(<<>>, JobsourceColumns)]
NoEmployersFile ==
    [jobs_rows |-> FrameOf(<<Engineer>>, JobColumns),
     jobs_archiviert_rows |-> FrameOf(<<>>, JobColumns \cup {"original_id"}),
     employers_rows |-> Missing,
     jobsource_rows |-> FrameOf(<<>>, JobsourceColumns)]

\* the times a run may read from the clock
Times == {"2025-12-10T10:00:00", "2025-12-10T10:05:00"}

-----------------------------------------------------------------------------
(* main() of concat_jobs.py *)

\* the default output path, data/unified_jobs.json
OutputPath == "data/unified_jobs.json"
\* the default output path of the projection, data/jobs_dataset.json
DatasetPath == "data/jobs_dataset.json"
\* JOBS_FILE of the viewer
JOBS_FILE == "data/jobs_dataset_mock.json"
Paths == {OutputPath, DatasetPath, JOBS_FILE}

NoFrame == DataFrame({}, <<>>)
NoArgs == [include_embeddings |-> FALSE, exclude_descriptions |-> FALSE]
NotCalled == [exc |-> "not called", ret |-> None]
\* concat_jobs_freshdataset.py is not running
NoProjection ==
    [pc |-> "idle", input_path |-> OutputPath, output_path |-> DatasetPath,
     unified_data |-> None, fresh_dataset |-> None]
\* no button of the viewer was clicked
NoEvent == [op |-> "none", job_id |-> None, outcome |-> NotCalled]
\* the viewer before its first script run: nothing cached, nothing loaded
NoViewer == [cache |-> Missing, data |-> None, event |-> NoEvent]

Idle ==
    /\ pc = "idle"
    /\ args = NoArgs
    /\ jobs_active = NoFrame /\ jobs_archived = NoFrame
    /\ employers = NoFrame /\ jobsources = NoFrame
    /\ all_jobs = NoFrame
    /\ unified = None

Init ==
    /\ csv \in Inputs \cup {NoEmbeddingColumn, NoEmployersFile}
    /\ files = [p \in Paths |-> Missing]
    /\ Idle
    /\ value = None
    /\ outcome = NotCalled
    /\ projection = NoProjection
    /\ viewer = NoViewer

\* argparse: a run starts with some choice of the two flags
ParseArgs ==
    /\ pc = "idle"
    /\ \E emb \in BOOLEAN, excl \in BOOLEAN :
          args' = [include_embeddings |-> emb, exclude_descriptions |-> excl]
    /\ pc' = "load"
    /\ UNCHANGED <<projection, viewer, csv, files, jobs_active, jobs_archived, employers,
                   jobsources, all_jobs, unified, value, outcome>>

\* a variant that creates the output file before it reads the sources
load_csv_files_opened ==
    /\ pc = "load"
    /\ files' = [files EXCEPT ![OutputPath] = None]
    /\ IF \E name \in DOMAIN csv : csv[name] = Missing
       THEN /\ pc' = "failed"
            /\ UNCHANGED <<jobs_active, jobs_archived, employers, jobsources>>
       ELSE /\ jobs_active' = csv.jobs_rows
            /\ jobs_archived' = csv.jobs_archiviert_rows
            /\ employers' = csv.employers_rows
            /\ jobsources' = csv.jobsource_rows
            /\ pc' = "normalize"
    /\ UNCHANGED <<projection, viewer, csv, args, all_jobs, unified, value, outcome>>

\* pd.read_csv raises FileNotFoundError for a source that is not there, and
\* nothing is assigned
load_csv_files ==
    /\ pc = "load"
    /\ IF \E name \in DOMAIN csv : csv[name] = Missing
       THEN /\ pc' = "failed"
            /\ UNCHANGED <<jobs_active, jobs_archived, employers, jobsources>>
       ELSE /\ jobs_active' = csv.jobs_rows
            /\ jobs_archived' = csv.jobs_archiviert_rows
            /\ employers' = csv.employers_rows
            /\ jobsources' = csv.jobsource_rows
            /\ pc' = "normalize"
    /\ UNCHANGED <<projection, viewer, csv, files, args, all_jobs, unified, value, outcome>>

Normalize ==
    /\ pc = "normalize"
    /\ all_jobs' = normalize_job_schemas(jobs_active, jobs_archived)
    /\ pc' = "parse"
    /\ UNCHANGED <<projection, viewer, csv, files, args, jobs_active, jobs_archived, employers,
                   jobsources, unified, value, outcome>>

\* an exception no one catches ends the run
Parse ==
    /\ pc = "parse"
    /\ LET r == parse_categorized_data(all_jobs)
       IN  IF r.exc = "none"
           THEN all_jobs' = r.ret /\ pc' = "build"
           ELSE all_jobs' = all_jobs /\ pc' = "failed"
    /\ UNCHANGED <<projection, viewer, csv, files, args, jobs_active, jobs_archived, employers,
                   jobsources, unified, value, outcome>>

Build ==
    /\ pc = "build"
    /\ IF Builds(all_jobs, employers, jobsources,
                 args.include_embeddings, ~args.exclude_descriptions)
       THEN /\ \E now \in Times :
                  unified' = build_unified_structure(all_jobs, employers, jobsources,
                                 args.include_embeddings, ~args.exclude_descriptions, now)
            /\ pc' = "write"
       ELSE /\ unified' = unified
            /\ pc' = "failed"
    /\ UNCHANGED <<projection, viewer, csv, files, args, jobs_active, jobs_archived, employers,
                   jobsources, all_jobs, value, outcome>>

\* open(output_path, "w") and json.dump(unified, f), then the summary
Write ==
    /\ pc = "write"
    /\ files' = [files EXCEPT ![OutputPath] = unified]
    /\ pc' = "done"
    /\ UNCHANGED <<projection, viewer, csv, args, jobs_active, jobs_archived, employers,
                   jobsources, all_jobs, unified, value, outcome>>

\* the process ends; its memory is gone and another run may start
Exit ==
    /\ pc \in {"done", "failed"}
    /\ pc' = "idle"
    /\ args' = NoArgs
    /\ jobs_active' = NoFrame /\ jobs_archived' = NoFrame
    /\ employers' = NoFrame /\ jobsources' = NoFrame
    /\ all_jobs' = NoFrame
    /\ unified' = None
    /\ UNCHANGED <<projection, viewer, csv, files, value, outcome>>

Next ==
    \/ ParseArgs
    \/ load_csv_files
    \/ Normalize
    \/ Parse
    \/ Build
    \/ Write
    \/ Exit

Spec == Init /\ [][Next]_vars

-----------------------------------------------------------------------------
(* Direct calls of parse_json_column, on any value: a string over the      *)
(* alphabet, or a value that is not a string.                              *)

Alphabet == {"{", "}", "[", "]", "\"", ":", ",", "1", "a"}

ParseInputs ==
    {Chars(cs) : cs \in SeqsUpTo(Alphabet, MaxJsonLen)}
        \cup {Chars(ObjectText), Dict(ObjectText), Dict(<<"{", "}">>),
              List(ArrayText), List(<<"[", "1", ",", "1", "]">>),
              None, NaN, Num(1), Bool(TRUE)}

NoInputs ==
    [jobs_rows |-> FrameOf(<<>>, JobColumns),
     jobs_archiviert_rows |-> FrameOf(<<>>, JobColumns \cup {"original_id"}),
     employers_rows |-> FrameOf(<<>>, EmployerColumns),
     jobsource_rows |-> FrameOf(<<>>, JobsourceColumns)]

InitParse ==
    /\ csv = NoInputs
    /\ files = [p \in Paths |-> Missing]
    /\ Idle
    /\ value \in ParseInputs
    /\ outcome = NotCalled
    /\ projection = NoProjection
    /\ viewer = NoViewer

CallParse ==
    /\ outcome = NotCalled
    /\ outcome' = parse_json_column(value)
    /\ UNCHANGED <<projection, viewer, csv, files, pc, args, jobs_active, jobs_archived, employers,
                   jobsources, all_jobs, unified, value>>

NextParse == CallParse

SpecParse == InitParse /\ [][NextParse]_vars

-----------------------------------------------------------------------------
(* main() of concat_jobs_freshdataset.py.  A JSON object is a record, and a *)
(* JSON array at the top level of a file is a value tagged "list".         *)

\* the unified document of a data directory, as concat_jobs.py writes it
UnifiedOf(c, include_embeddings, include_descriptions, now) ==
    build_unified_structure(
        parse_categorized_data(
            normalize_job_schemas(c.jobs_rows, c.jobs_archiviert_rows)).ret,
        c.employers_rows, c.jobsource_rows,
        include_embeddings, include_descriptions, now)

UnifiedDocuments ==
    { UnifiedOf(c, emb, desc, "2025-12-10T10:00:00") :
        c \in {i \in Inputs :
                  parse_categorized_data(
                      normalize_job_schemas(i.jobs_rows, i.jobs_archiviert_rows)).exc = "none"},
        emb \in BOOLEAN, desc \in BOOLEAN }

\* a document without some of its top-level keys
Drop(doc, keys) == [k \in DOMAIN doc \ keys |-> doc[k]]
SampleDocument ==
    UnifiedOf([jobs_rows |-> FrameOf(<<Engineer>>, JobColumns),
               jobs_archiviert_rows |-> FrameOf(<<>>, JobColumns \cup {"original_id"}),
               employers_rows |-> FrameOf(<<Acme>>, EmployerColumns),
               jobsource_rows |-> FrameOf(<<Board>>, JobsourceColumns)],
              FALSE, TRUE, "2025-12-10T10:00:00")
PartialDocuments ==
    { Drop(SampleDocument, keys) :
        keys \in (SUBSET {"employers", "jobsources", "jobs"}) \ {{}} }
\* a file that holds the list of the jobs only
ListDocument == [py |-> "list", items |-> SampleDocument.jobs]

\* the files --input may name
ProjectionSources == UnifiedDocuments \cup PartialDocuments \cup {ListDocument}
\* the paths --input and --output may name
ProjectionPaths == {OutputPath, DatasetPath}

IsDict(doc) == "py" \notin DOMAIN doc
\* doc.get(key, [])
GetOrEmpty(doc, key) == IF key \in DOMAIN doc THEN doc[key] ELSE <<>>

\* a variant that keeps the key and sets it to None
job_copy_nulled(job) ==
    [k \in DOMAIN job |-> IF k # "CategorizedData" THEN job[k] ELSE None]

\* {k: v for k, v in job.items() if k != "CategorizedData"}
job_copy(job) == [k \in DOMAIN job \ {"CategorizedData"} |-> job[k]]

\* a variant that deletes the field from the job it was given and appends that:
\* the jobs of the loaded document are then the cleaned ones
CleanInPlace(unified_data) ==
    LET jobs == GetOrEmpty(unified_data, "jobs")
        cleaned == [i \in 1..Len(jobs) |-> job_copy(jobs[i])]
    IN  [unified_data |-> IF "jobs" \in DOMAIN unified_data
                          THEN [unified_data EXCEPT !.jobs = cleaned]
                          ELSE unified_data,
         jobs_cleaned |-> cleaned]

\* the loop over unified_data.get("jobs", []): the cleaned jobs, and the loaded
\* document after the loop, which appends copies and assigns to no job
Clean(unified_data) ==
    LET jobs == GetOrEmpty(unified_data, "jobs")
    IN  [unified_data |-> unified_data,
         jobs_cleaned |-> [i \in 1..Len(jobs) |-> job_copy(jobs[i])]]

FreshDataset(unified_data, jobs_cleaned) ==
    [employers |-> GetOrEmpty(unified_data, "employers"),
     jobsources |-> GetOrEmpty(unified_data, "jobsources"),
     jobs |-> jobs_cleaned]

InitProjection ==
    /\ csv = NoInputs
    /\ \E doc \in ProjectionSources :
          files = [p \in Paths |-> IF p = OutputPath THEN doc ELSE Missing]
    /\ Idle
    /\ value = None
    /\ outcome = NotCalled
    /\ projection = NoProjection
    /\ viewer = NoViewer

\* argparse: --input and --output each name a path
ProjectionArgs ==
    /\ projection.pc = "idle"
    /\ \E input \in ProjectionPaths, output \in ProjectionPaths :
          projection' = [projection EXCEPT !.pc = "load",
                                           !.input_path = input,
                                           !.output_path = output]
    /\ UNCHANGED <<viewer, csv, files, pc, args, jobs_active, jobs_archived,
                   employers, jobsources, all_jobs, unified, value, outcome>>

\* open(input_path) raises FileNotFoundError when there is no such file
ProjectionLoad ==
    /\ projection.pc = "load"
    /\ IF files[projection.input_path] = Missing
       THEN projection' = [projection EXCEPT !.pc = "failed"]
       ELSE projection' = [projection EXCEPT !.pc = "clean",
                               !.unified_data = files[projection.input_path]]
    /\ UNCHANGED <<viewer, csv, files, pc, args, jobs_active, jobs_archived,
                   employers, jobsources, all_jobs, unified, value, outcome>>

\* a list has no get: AttributeError
ProjectionClean ==
    /\ projection.pc = "clean"
    /\ IF IsDict(projection.unified_data)
       THEN LET r == Clean(projection.unified_data)
            IN  projection' = [projection EXCEPT
                    !.pc = "write",
                    !.unified_data = r.unified_data,
                    !.fresh_dataset = FreshDataset(r.unified_data, r.jobs_cleaned)]
       ELSE projection' = [projection EXCEPT !.pc = "failed"]
    /\ UNCHANGED <<viewer, csv, files, pc, args, jobs_active, jobs_archived,
                   employers, jobsources, all_jobs, unified, value, outcome>>

\* open(output_path, "w") and json.dump(fresh_dataset, f)
ProjectionWrite ==
    /\ projection.pc = "write"
    /\ files' = [files EXCEPT ![projection.output_path] = projection.fresh_dataset]
    /\ projection' = [projection EXCEPT !.pc = "done"]
    /\ UNCHANGED <<viewer, csv, pc, args, jobs_active, jobs_archived,
                   employers, jobsources, all_jobs, unified, value, outcome>>

\* the process ends; its memory is gone and another run may start
ProjectionExit ==
    /\ projection.pc \in {"done", "failed"}
    /\ projection' = NoProjection
    /\ UNCHANGED <<viewer, csv, files, pc, args, jobs_active, jobs_archived,
                   employers, jobsources, all_jobs, unified, value, outcome>>

NextProjection ==
    \/ ProjectionArgs
    \/ ProjectionLoad
    \/ ProjectionClean
    \/ ProjectionWrite
    \/ ProjectionExit

SpecProjection == InitProjection /\ [][NextProjection]_vars

-----------------------------------------------------------------------------
(* main() of main.py, the viewer.  Streamlit runs the script once for every *)
(* interaction: the run loads the data and, when a button was clicked,     *)
(* executes the block under that button.                                   *)

IsList(doc) == "py" \in DOMAIN doc /\ doc.py = "list"
\* `data if isinstance(data, list) else data.get("jobs", [])`
JobsOf(data) == IF IsList(data) THEN data.items ELSE GetOrEmpty(data, "jobs")
WithJobs(data, jobs) ==
    IF IsList(data) THEN [data EXCEPT !.items = jobs] ELSE [data EXCEPT !.jobs = jobs]

\* load_jobs_data under st.cache_data: the cached value if there is one, else
\* the file; the caller gets a copy
load_jobs_data == IF viewer.cache # Missing THEN viewer.cache ELSE files[JOBS_FILE]

\* the truth value of a Python value
Truthy(v) ==
    CASE v = None -> FALSE
      [] v = NaN -> TRUE
      [] v.py = "bool" -> v.b
      [] v.py = "num" -> v.n # 0
      [] v.py = "str" -> IF "cs" \in DOMAIN v THEN v.cs # <<>> ELSE v.s # ""
      [] v.py = "dict" -> v.cs # <<"{", "}">>
      [] v.py = "list" -> ListLen(v) > 0

\* job.get("CategorizedData")
CategorizedDataOf(job) ==
    IF "CategorizedData" \in DOMAIN job THEN job.CategorizedData ELSE None
has_metadata(job) == Truthy(CategorizedDataOf(job))

\* what the model answers: no answer (the request raises), or a text
Responses == {Missing, Chars(ObjectText), Chars(<<"{", "}">>), Chars(ArrayText), Chars(InvalidText)}

\* generate_metadata: the request, json.loads of the content, and
\* result.items(), which only a dict has
generate_metadata(response) ==
    IF response = Missing THEN Raised("APIError")
    ELSE LET result == json_loads(response.cs)
         IN  IF result.exc # "none" THEN result
             ELSE IF result.ret.py # "dict" THEN Raised("AttributeError")
             ELSE result

\* a variant without the break: every job with the identifier is updated
SetCategorizedDataAll(data, job_id, metadata) ==
    LET jobs == JobsOf(data)
    IN  IF \E i \in 1..Len(jobs) : jobs[i].id = job_id
        THEN WithJobs(data, [i \in 1..Len(jobs) |->
                 IF jobs[i].id = job_id
                 THEN ("CategorizedData" :> metadata) @@ jobs[i]
                 ELSE jobs[i]])
        ELSE data

\* for j in jobs_list: if j["id"] == job_id: j["CategorizedData"] = metadata; break
SetCategorizedData(data, job_id, metadata) ==
    LET jobs == JobsOf(data)
    IN  IF \E i \in 1..Len(jobs) : jobs[i].id = job_id
        THEN LET first == CHOOSE i \in 1..Len(jobs) :
                              /\ jobs[i].id = job_id
                              /\ \A q \in 1..(i - 1) : jobs[q].id # job_id
             IN  WithJobs(data, [jobs EXCEPT ![first] =
                                    ("CategorizedData" :> metadata) @@ jobs[first]])
        ELSE data

\* the files the viewer may find at JOBS_FILE: a unified document, its
\* projection, the list of its jobs, a document with two jobs of one
\* identifier, a document without jobs
ViewerDirectory ==
    [jobs_rows |-> FrameOf(<<Engineer,
                             JobRow(3, Str("Analyst"), NaN, Num(3), Chars(StringText),
                                    Str("Count things"), NaN, Num(0), Bool(FALSE))>>,
                           JobColumns),
     jobs_archiviert_rows |->
         FrameOf(<<JobRow(4, Str("Clerk"), Num(10), Num(1), NaN,
                          Str("File things"), Str("[0.2]"), Num(7), Bool(TRUE))
                       @@ ("original_id" :> Num(99))>>,
                 JobColumns \cup {"original_id"}),
     employers_rows |-> FrameOf(<<Acme>>, EmployerColumns),
     jobsource_rows |-> FrameOf(<<Board>>, JobsourceColumns)]
TwiceDirectory ==
    [ViewerDirectory EXCEPT !.jobs_rows = FrameOf(<<Engineer, Engineer>>, JobColumns)]
ViewerDocument == UnifiedOf(ViewerDirectory, FALSE, TRUE, "2025-12-10T10:00:00")
TwiceDocument == UnifiedOf(TwiceDirectory, FALSE, TRUE, "2025-12-10T10:00:00")
ViewerFiles ==
    { ViewerDocument,
      FreshDataset(ViewerDocument, Clean(ViewerDocument).jobs_cleaned),
      [py |-> "list", items |-> ViewerDocument.jobs],
      TwiceDocument,
      Drop(ViewerDocument, {"jobs"}),
      Missing }

InitViewer ==
    /\ csv = NoInputs
    /\ \E doc \in ViewerFiles :
          files = [p \in Paths |-> IF p = JOBS_FILE THEN doc ELSE Missing]
    /\ Idle
    /\ value = None
    /\ outcome = NotCalled
    /\ projection = NoProjection
    /\ viewer = NoViewer

\* a script run without a click: the data is loaded and shown; without the file,
\* load_jobs_data raises FileNotFoundError and the run returns
View ==
    /\ IF load_jobs_data = Missing
       THEN viewer' = [viewer EXCEPT !.data = None, !.event = NoEvent]
       ELSE viewer' = [cache |-> load_jobs_data, data |-> load_jobs_data, event |-> NoEvent]
    /\ UNCHANGED <<projection, csv, files, pc, args, jobs_active, jobs_archived,
                   employers, jobsources, all_jobs, unified, value, outcome>>

\* a script run after a click on "Generate Metadata" of the job at place i: an
\* Exception of the block is caught and shown; st.rerun() ends the run
GenerateMetadata ==
    /\ load_jobs_data # Missing
    /\ LET data == load_jobs_data
       IN  \E i \in 1..Len(JobsOf(data)), response \in Responses :
             LET job_id == JobsOf(data)[i].id
                 r == generate_metadata(response)
                 event == [op |-> "generate", job_id |-> job_id, outcome |-> r]
             IN  IF r.exc = "none"
                 THEN LET saved == SetCategorizedData(data, job_id, r.ret)
                      IN  /\ files' = [files EXCEPT ![JOBS_FILE] = saved]
                          /\ viewer' = [cache |-> Missing, data |-> saved, event |-> event]
                 ELSE /\ files' = files
                      /\ viewer' = [cache |-> data, data |-> data, event |-> event]
    /\ UNCHANGED <<projection, csv, pc, args, jobs_active, jobs_archived,
                   employers, jobsources, all_jobs, unified, value, outcome>>

\* a script run after a click on "Clear Metadata", a button of the jobs with
\* metadata only
ClearMetadata ==
    /\ load_jobs_data # Missing
    /\ LET data == load_jobs_data
       IN  \E i \in 1..Len(JobsOf(data)) :
             /\ has_metadata(JobsOf(data)[i])
             /\ LET job_id == JobsOf(data)[i].id
                    saved == SetCategorizedData(data, job_id, None)
                IN  /\ files' = [files EXCEPT ![JOBS_FILE] = saved]
                    /\ viewer' = [cache |-> Missing, data |-> saved,
                                  event |-> [op |-> "clear", job_id |-> job_id,
                                             outcome |-> Returned(None)]]
    /\ UNCHANGED <<projection, csv, pc, args, jobs_active, jobs_archived,
                   employers, jobsources, all_jobs, unified, value, outcome>>

NextViewer ==
    \/ View
    \/ GenerateMetadata
    \/ ClearMetadata

SpecViewer == InitViewer /\ [][NextViewer]_vars

-----------------------------------------------------------------------------
(* Properties of the pipeline.  The input relations are the ones on disk,  *)
(* csv; the output is the document main() has built (and, once written,    *)
(* the file).                                                              *)

\* the run has built its document
Built == pc \in {"write", "done"}

Active == csv.jobs_rows.rows
Archived == csv.jobs_archiviert_rows.rows
\* the input rows in the order the spec gives the output: active, then archived
InputRows == Active \o Archived

\* the identifiers of a reference relation
Ids(df, col) == {df.rows[k][col] : k \in 1..Len(df.rows)} \ {NaN}

\* C1: the jobs of the output are one record per input row, the active rows in
\* their order and then the archived rows in theirs: record i carries the
\* identifier of input row i and the provenance of its relation, and there are as
\* many records as input rows.
C1_OneRecordPerRow ==
    Built =>
        /\ Len(unified.jobs) = Len(Active) + Len(Archived)
        /\ \A i \in 1..Len(unified.jobs) :
              /\ i <= Len(InputRows)
              /\ unified.jobs[i].id = InputRows[i].id
              /\ unified.jobs[i].job_title = OrNone(InputRows[i].job_title)
              /\ unified.jobs[i].source_table =
                    IF i <= Len(Active) THEN Str("active") ELSE Str("archived")

C1_Witness ==
    /\ Built
    /\ Len(Active) = 2 /\ Len(Archived) = 1
    /\ Active[1].id # Active[2].id
    /\ Len(unified.jobs) = 3

\* C2: a record's employer ref is non-null exactly when its raw employer key is
\* present and is the identifier of some row of the employer relation, and its
\* source ref is non-null exactly when its raw jobsource key is present and is the
\* identifier of some row of the jobsource relation.
C2_RefIffKeyResolves ==
    Built =>
        \A i \in 1..Len(unified.jobs) :
            /\ i <= Len(InputRows)
            /\ (unified.jobs[i].employer # None) <=>
                  (/\ notna(InputRows[i].employer_id)
                   /\ InputRows[i].employer_id \in Ids(csv.employers_rows, "id"))
            /\ (unified.jobs[i].jobsource # None) <=>
                  (/\ notna(InputRows[i].jobsource_id)
                   /\ InputRows[i].jobsource_id \in Ids(csv.jobsource_rows, "jobsource_id"))

C2_Witness ==
    /\ Built
    /\ \E i, j, k \in 1..Len(unified.jobs) :
          /\ unified.jobs[i].employer # None
          /\ unified.jobs[j].employer = None /\ notna(InputRows[j].employer_id)
          /\ unified.jobs[k].employer = None /\ isna(InputRows[k].employer_id)
    /\ \E i, j \in 1..Len(unified.jobs) :
          /\ unified.jobs[i].jobsource # None
          /\ unified.jobs[j].jobsource = None /\ notna(InputRows[j].jobsource_id)
    /\ csv.employers_rows.rows # <<>>

\* The two shapes of a relationship in a record: the ref embedded and no raw key
\* field, or a null ref and the raw key field holding the key (None when absent).
Shape(job, ref, raw, key, ids) ==
    \/ /\ notna(key) /\ key \in ids
       /\ job[ref] # None
       /\ raw \notin DOMAIN job
    \/ /\ ~(notna(key) /\ key \in ids)
       /\ job[ref] = None
       /\ raw \in DOMAIN job
       /\ job[raw] = IF notna(key) THEN key ELSE None

\* C3: for each record and each of the two relationships exactly one of the two
\* shapes holds: the key resolved, the ref is embedded and the record has no raw
\* key field; or it did not, the ref is null and the raw key field is there with
\* the original key, or None when the key was absent.
C3_TwoShapes ==
    Built =>
        \A i \in 1..Len(unified.jobs) :
            /\ i <= Len(InputRows)
            /\ Shape(unified.jobs[i], "employer", "employer_id",
                     InputRows[i].employer_id, Ids(csv.employers_rows, "id"))
            /\ Shape(unified.jobs[i], "jobsource", "jobsource_id",
                     InputRows[i].jobsource_id, Ids(csv.jobsource_rows, "jobsource_id"))

\* the scenario of the spec: record 1 with employer key 10, which matches employer
\* Acme, and no jobsource key, with no source rows
C3_Witness ==
    /\ Built
    /\ Len(csv.employers_rows.rows) = 1 /\ csv.jobsource_rows.rows = <<>>
    /\ \E i \in 1..Len(unified.jobs) :
          /\ InputRows[i].id = Num(1)
          /\ InputRows[i].employer_id = Num(10) /\ InputRows[i].jobsource_id = NaN
          /\ unified.jobs[i].employer # None
          /\ unified.jobs[i].employer.id = Num(10)
          /\ unified.jobs[i].employer.name = Str("Acme")
          /\ "employer_id" \notin DOMAIN unified.jobs[i]
          /\ unified.jobs[i].jobsource = None
          /\ "jobsource_id" \in DOMAIN unified.jobs[i]
          /\ unified.jobs[i].jobsource_id = None

\* C4: every record's source_table is "active" or "archived", that of its
\* relation, and no record of provenance "active" has the field original_id.
C4_ActiveHasNoOriginalId ==
    Built =>
        \A i \in 1..Len(unified.jobs) :
            /\ unified.jobs[i].source_table \in {Str("active"), Str("archived")}
            /\ unified.jobs[i].source_table = Str("active") <=> i <= Len(Active)
            /\ unified.jobs[i].source_table = Str("active")
                  => "original_id" \notin DOMAIN unified.jobs[i]

\* C5: parse_json_column never raises, whatever the value: a missing or empty
\* value yields None, a value that is already a dict is returned unchanged, and a
\* string that is not valid JSON yields None.
C5_NeverRaises ==
    outcome # NotCalled =>
        /\ outcome.exc = "none"
        /\ (isna(value) \/ value = Chars(<<>>)) => outcome.ret = None
        /\ value.py = "dict" => outcome.ret = value
        /\ (value.py = "str" /\ json_loads(value.cs).exc # "none") => outcome.ret = None

\* C6: the CategorizedData of every record of the output is a nested structure (a
\* dict or a list) or None, never a string, a number or another scalar.
C6_StructureOrNone ==
    Built =>
        \A i \in 1..Len(unified.jobs) :
            unified.jobs[i].CategorizedData.py \in {"dict", "list", "None"}

\* the entries of a collection of the output with the given identifier
Entries(collection, col, key) ==
    {k \in 1..Len(collection) : collection[k][col] = key}

\* C7 as stated: the source ref of a resolved record carries every field of the
\* JobSource entry with its identifier: jobsource_id, jobsource and description.
C7_FullSourceRef ==
    Built =>
        \A i \in 1..Len(unified.jobs) :
            unified.jobs[i].jobsource # None =>
                /\ DOMAIN unified.jobs[i].jobsource = {"jobsource_id", "jobsource", "description"}
                /\ \E k \in Entries(unified.jobsources, "jobsource_id", InputRows[i].jobsource_id) :
                      unified.jobs[i].jobsource = unified.jobsources[k]

\* C7 as amended: the source ref of a resolved record carries exactly the fields
\* jobsource_id and jobsource, with the values of the one entry of the jobsources
\* collection that has the record's jobsource key as identifier; the description
\* of that entry is not embedded.
C7_SourceRefIdAndLabel ==
    Built =>
        \A i \in 1..Len(unified.jobs) :
            unified.jobs[i].jobsource # None =>
                /\ i <= Len(InputRows)
                /\ DOMAIN unified.jobs[i].jobsource = {"jobsource_id", "jobsource"}
                /\ Cardinality(Entries(unified.jobsources, "jobsource_id",
                                       InputRows[i].jobsource_id)) = 1
                /\ \A k \in Entries(unified.jobsources, "jobsource_id", InputRows[i].jobsource_id) :
                      /\ unified.jobs[i].jobsource.jobsource_id = unified.jobsources[k].jobsource_id
                      /\ unified.jobs[i].jobsource.jobsource = unified.jobsources[k].jobsource

\* a resolved source whose entry has a description, which the ref leaves out
C7_Witness ==
    /\ Built
    /\ \E i \in 1..Len(unified.jobs) :
          /\ unified.jobs[i].jobsource # None
          /\ unified.jobs[i].jobsource.jobsource = Str("Board")
          /\ \E k \in 1..Len(unified.jobsources) :
                /\ unified.jobsources[k].jobsource_id = unified.jobs[i].jobsource.jobsource_id
                /\ unified.jobsources[k].description # None

\* C8: the employer ref of a resolved record has exactly the fields id, name,
\* alt_name and logo_url (none of fh, jobscount, jobscount_online), each with the
\* value of the one entry of the employers collection whose id is the record's
\* employer key, also when several rows of the employer relation share that id.
C8_EmployerRefDisplayFields ==
    Built =>
        \A i \in 1..Len(unified.jobs) :
            unified.jobs[i].employer # None =>
                /\ i <= Len(InputRows)
                /\ DOMAIN unified.jobs[i].employer = {"id", "name", "alt_name", "logo_url"}
                /\ Cardinality(Entries(unified.employers, "id", InputRows[i].employer_id)) = 1
                /\ \A k \in Entries(unified.employers, "id", InputRows[i].employer_id) :
                      \A f \in {"id", "name", "alt_name", "logo_url"} :
                          unified.jobs[i].employer[f] = unified.employers[k][f]

\* a record resolved against an identifier that two rows of the relation share
C8_Witness ==
    /\ Built
    /\ \E i \in 1..Len(unified.jobs) :
          /\ unified.jobs[i].employer # None
          /\ Cardinality({k \in 1..Len(csv.employers_rows.rows) :
                 csv.employers_rows.rows[k].id = InputRows[i].employer_id}) = 2
    /\ \E i \in 1..Len(unified.jobs) :
          /\ unified.jobs[i].employer # None
          /\ unified.jobs[i].employer.id = Num(11)

\* a record without the two optional fields
Core(job) == [k \in DOMAIN job \ {"description", "job_embedding"} |-> job[k]]

\* the document the run before wrote, when the run at hand is about to write its own
Previous == files[OutputPath]
Rerun == pc = "write" /\ Previous # Missing

\* C9: the two options change which fields a record has, never which records
\* there are: a record has job_embedding iff include_embeddings and description
\* iff include_descriptions, and two runs on the same inputs, whatever their
\* options, give the same number of records in the same order with every other
\* field equal.
C9_OptionsOnlyChangeFields ==
    /\ Built =>
          \A i \in 1..Len(unified.jobs) :
              /\ "job_embedding" \in DOMAIN unified.jobs[i] <=> args.include_embeddings
              /\ "description" \in DOMAIN unified.jobs[i] <=> ~args.exclude_descriptions
    /\ Rerun =>
          /\ Len(unified.jobs) = Len(Previous.jobs)
          /\ \A i \in 1..Len(unified.jobs) :
                /\ i <= Len(Previous.jobs)
                /\ unified.jobs[i].id = Previous.jobs[i].id
                /\ Core(unified.jobs[i]) = Core(Previous.jobs[i])

\* two runs that differ in both options, over rows with and without an embedding
C9_Witness ==
    /\ Rerun
    /\ unified.metadata.include_embeddings # Previous.metadata.include_embeddings
    /\ unified.metadata.include_descriptions # Previous.metadata.include_descriptions
    /\ Len(unified.jobs) = 3
    /\ \E i, j \in 1..Len(InputRows) :
          isna(InputRows[i].job_embedding) /\ notna(InputRows[j].job_embedding)

\* a document with the generation timestamp blanked
Untimed(doc) == [doc EXCEPT !.metadata.generated_at = None]

SameOptions(a, b) ==
    /\ a.metadata.include_embeddings = b.metadata.include_embeddings
    /\ a.metadata.include_descriptions = b.metadata.include_descriptions

\* C10: a second run on unchanged inputs with the options of the first builds a
\* document equal to the one the first wrote in every field of metadata,
\* employers, jobsources and jobs except metadata.generated_at, and writes
\* exactly what it built.
C10_RerunIdentical ==
    /\ (Rerun /\ SameOptions(unified, Previous)) => Untimed(unified) = Untimed(Previous)
    /\ pc = "done" => files[OutputPath] = unified

\* a second run at another time on three rows and several employers
C10_Witness ==
    /\ Rerun /\ SameOptions(unified, Previous)
    /\ unified.metadata.generated_at # Previous.metadata.generated_at
    /\ Len(unified.jobs) = 3
    /\ Len(unified.employers) = 2

\* the records of a collection of jobs with the given provenance
WithProvenance(jobs_list, table) ==
    {i \in 1..Len(jobs_list) : jobs_list[i].source_table = Str(table)}

\* C11: the counts of the metadata block agree with the collections: total_jobs
\* is the number of jobs, active_jobs and archived_jobs are the numbers of records
\* of provenance "active" and "archived" and sum to total_jobs, total_employers is
\* the number of employers and total_jobsources the number of jobsources.
C11_CountsAgree ==
    Built =>
        /\ unified.metadata.total_jobs = Num(Len(unified.jobs))
        /\ unified.metadata.active_jobs = Num(Cardinality(WithProvenance(unified.jobs, "active")))
        /\ unified.metadata.archived_jobs = Num(Cardinality(WithProvenance(unified.jobs, "archived")))
        /\ unified.metadata.active_jobs.n + unified.metadata.archived_jobs.n
              = unified.metadata.total_jobs.n
        /\ unified.metadata.total_employers = Num(Len(unified.employers))
        /\ unified.metadata.total_jobsources = Num(Len(unified.jobsources))

\* a document with records of both provenances and with fewer employers than the
\* employer relation has rows
C11_Witness ==
    /\ Built
    /\ unified.metadata.active_jobs = Num(2)
    /\ unified.metadata.archived_jobs = Num(1)
    /\ unified.metadata.total_employers = Num(2)
    /\ Len(csv.employers_rows.rows) = 3

\* C14: the output file is written only by the step that follows the load of
\* the four sources and the build of the document; a step that fails (loading
\* a source, parsing the payloads or building the document) ends the run
\* abnormally and leaves every file, a file already at the output path
\* included, as it was.
C14_WriteOnlyAfterBuild ==
    [][ /\ files' # files =>
            /\ pc = "write" /\ pc' = "done"
            /\ unified = build_unified_structure(all_jobs, employers, jobsources,
                             args.include_embeddings, ~args.exclude_descriptions,
                             unified.metadata.generated_at.s)
            /\ jobs_active = csv.jobs_rows /\ jobs_archived = csv.jobs_archiviert_rows
            /\ employers = csv.employers_rows /\ jobsources = csv.jobsource_rows
        /\ pc' = "failed" => files' = files /\ pc \in {"load", "parse", "build"}
        /\ pc = "failed" => files' = files /\ pc' = "idle" ]_vars

\* a run failed in build_unified_structure while the output of an earlier run
\* is at the output path
C14_Witness ==
    /\ pc = "failed"
    /\ csv = NoEmbeddingColumn
    /\ args.include_embeddings
    /\ files[OutputPath] # Missing

\* the row an entry of a reference collection was made from: the last row of the
\* relation with the entry's identifier
SourceRow(df, col, key) ==
    df.rows[CHOOSE r \in 1..Len(df.rows) :
                /\ df.rows[r][col] = key
                /\ \A q \in (r + 1)..Len(df.rows) : df.rows[q][col] # key]

BooleanFlags == {"main", "sync", "ignore", "removed", "manual", "Archived", "ideal", "fh"}
Counters == {"clicks", "jobscount", "jobscount_online"}
\* the fields of a record that are made from the source column of the same name
FromColumn(record, row) ==
    (DOMAIN record \cap DOMAIN row) \ {"CategorizedData", "source_table"}

\* C16 as stated: every field whose source value is missing is null, except
\* the click counter of a job (0) and the boolean flags (false), in the job
\* records and in the employers and jobsources collections.
C16_MissingIsNull ==
    Built =>
        LET Default(f) == IF f = "clicks" THEN Num(0)
                          ELSE IF f \in BooleanFlags THEN Bool(FALSE) ELSE None
        IN  /\ \A i \in 1..Len(unified.jobs) :
                  \A f \in FromColumn(unified.jobs[i], InputRows[i]) :
                      isna(InputRows[i][f]) => unified.jobs[i][f] = Default(f)
            /\ \A k \in 1..Len(unified.employers) :
                  LET row == SourceRow(csv.employers_rows, "id", unified.employers[k].id)
                  IN  \A f \in FromColumn(unified.employers[k], row) :
                          isna(row[f]) => unified.employers[k][f] = Default(f)
            /\ \A k \in 1..Len(unified.jobsources) :
                  LET row == SourceRow(csv.jobsource_rows, "jobsource_id",
                                       unified.jobsources[k].jobsource_id)
                  IN  \A f \in FromColumn(unified.jobsources[k], row) :
                          isna(row[f]) => unified.jobsources[k][f] = Default(f)

\* C16, amended: a field made from a source column whose value is missing is
\* null, and never the empty string, except that the counters (clicks of a job,
\* jobscount and jobscount_online of an employer) are 0, the boolean flags (of a
\* job, and fh of an employer) are false, and a job whose original_id is missing
\* has no original_id field; the identifier of an entry of the employers and
\* jobsources collections is the value read from the relation.
C16_MissingDefaults ==
    Built =>
        LET Default(f) == IF f \in Counters THEN Num(0)
                          ELSE IF f \in BooleanFlags THEN Bool(FALSE) ELSE None
            rows == InputRows
        IN  /\ \A i \in 1..Len(unified.jobs) :
                  LET job == unified.jobs[i]
                      row == rows[i]
                  IN  /\ \A f \in FromColumn(job, row) :
                            isna(row[f]) => job[f] = Default(f)
                      /\ "original_id" \in DOMAIN job =>
                            /\ "original_id" \in DOMAIN row
                            /\ ~isna(row.original_id)
            /\ \A k \in 1..Len(unified.employers) :
                  LET entry == unified.employers[k]
                      row == SourceRow(csv.employers_rows, "id", entry.id)
                  IN  /\ entry.id = row.id
                      /\ \A f \in FromColumn(entry, row) \ {"id"} :
                            isna(row[f]) => entry[f] = Default(f)
            /\ \A k \in 1..Len(unified.jobsources) :
                  LET entry == unified.jobsources[k]
                      row == SourceRow(csv.jobsource_rows, "jobsource_id", entry.jobsource_id)
                  IN  /\ entry.jobsource_id = row.jobsource_id
                      /\ \A f \in FromColumn(entry, row) \ {"jobsource_id"} :
                            isna(row[f]) => entry[f] = Default(f)

\* an employer whose counters and flag are missing, a jobsource without a
\* description, and a job without title, clicks, flags and original_id
C16_Witness ==
    /\ Built
    /\ \E k \in 1..Len(unified.employers) :
          /\ isna(SourceRow(csv.employers_rows, "id", unified.employers[k].id).jobscount)
          /\ unified.employers[k].jobscount = Num(0)
          /\ unified.employers[k].fh = Bool(FALSE)
          /\ unified.employers[k].alt_name = None
    /\ \E k \in 1..Len(unified.jobsources) :
          /\ unified.jobsources[k].jobsource = None
          /\ unified.jobsources[k].description = None
    /\ \E i \in 1..Len(unified.jobs) :
          /\ isna(InputRows[i].job_title) /\ unified.jobs[i].job_title = None
          /\ isna(InputRows[i].clicks) /\ unified.jobs[i].clicks = Num(0)
          /\ "original_id" \in DOMAIN InputRows[i]
          /\ "original_id" \notin DOMAIN unified.jobs[i]

-----------------------------------------------------------------------------
(* Properties of the projection.  A is the document the run loaded and B   *)
(* the one it wrote.                                                       *)

Collections == {"employers", "jobsources", "jobs"}
Projected == projection.pc = "done"
A == projection.unified_data
B == files[projection.output_path]

\* C12: for a unified document A, B has exactly the keys employers, jobsources
\* and jobs; its employers and jobsources are A's; its jobs are as many as A's, in
\* A's order, none has a CategorizedData field and every other field of a record
\* equals that field of the record of A at the same place.
C12_ProjectionLossless ==
    (Projected /\ A \in UnifiedDocuments) =>
        /\ DOMAIN B = Collections
        /\ B.employers = A.employers
        /\ B.jobsources = A.jobsources
        /\ Len(B.jobs) = Len(A.jobs)
        /\ \A i \in 1..Len(B.jobs) :
              /\ "CategorizedData" \notin DOMAIN B.jobs[i]
              /\ DOMAIN B.jobs[i] = DOMAIN A.jobs[i] \ {"CategorizedData"}
              /\ \A f \in DOMAIN B.jobs[i] : B.jobs[i][f] = A.jobs[i][f]

\* a projection of a document with three jobs, one of them with a payload, with
\* refs, an unresolved key and an original_id among them
C12_Witness ==
    /\ Projected /\ A \in UnifiedDocuments
    /\ Len(A.jobs) = 3
    /\ \E i \in 1..3 : A.jobs[i].CategorizedData # None
    /\ \E i \in 1..3 : A.jobs[i].employer # None
    /\ \E i \in 1..3 : "jobsource_id" \in DOMAIN A.jobs[i]
    /\ \E i \in 1..3 : "original_id" \in DOMAIN A.jobs[i]
    /\ B.jobs # A.jobs

\* C13: a run whose input document lacks one of the collections employers,
\* jobsources and jobs fails and writes no output document: a run that has
\* written loaded a document with the three collections.
C13_FailsWithoutCollections ==
    projection.pc \in {"write", "done"} => Collections \subseteq DOMAIN A

\* C15 as stated: a run changes neither the document it loaded nor the file it
\* read it from, whatever the two paths are.
C15_InputUnchanged ==
    [][ /\ projection.pc \in {"clean", "write", "done"} /\ projection'.pc # "idle" =>
            projection'.unified_data = projection.unified_data
        /\ projection.pc # "idle" =>
            files'[projection.input_path] = files[projection.input_path] ]_vars

\* C15, amended: a run does not change the document it loaded (the cleaned jobs
\* are copies), and it does not change the file it read the document from
\* provided the output path is another path than the input path; with the same
\* path for both, the file holds the projection after the run.
C15_InputUnchangedUnlessSamePath ==
    [][ /\ projection.pc \in {"clean", "write", "done"} /\ projection'.pc # "idle" =>
            projection'.unified_data = projection.unified_data
        /\ projection.pc # "idle" /\ projection.input_path # projection.output_path =>
            files'[projection.input_path] = files[projection.input_path]
        /\ projection.pc = "write" /\ projection.input_path = projection.output_path =>
            files'[projection.input_path] = projection.fresh_dataset ]_vars

\* a run with two paths has written, the loaded document has a job with a
\* payload, and the input file is still the loaded document
C15_Witness ==
    /\ Projected
    /\ projection.input_path # projection.output_path
    /\ A \in UnifiedDocuments
    /\ \E i \in 1..Len(A.jobs) : A.jobs[i].CategorizedData # None
    /\ files[projection.input_path] = A
    /\ B # A

-----------------------------------------------------------------------------
(* Properties of the viewer. *)

\* the jobs at the places other than i are the same, and the job at place i
\* differs in CategorizedData at most
OnlyCategorizedDataAt(before, after, i) ==
    /\ Len(after) = Len(before)
    /\ \A q \in 1..Len(before) : q # i => after[q] = before[q]
    /\ DOMAIN after[i] = DOMAIN before[i] \cup {"CategorizedData"}
    /\ \A f \in DOMAIN before[i] \ {"CategorizedData"} : after[i][f] = before[i][f]
\* the parts of a document other than its jobs
Rest(data) == IF IsList(data) THEN data.py ELSE Drop(data, {"jobs"})

\* C17: a Generate Metadata or Clear Metadata for the identifier k that does
\* not raise changes the CategorizedData of one job with the identifier k, to
\* the generated value or to None, and nothing else of the document, and the
\* file is then the document in memory; a generation that raises changes
\* neither the document nor the file.  No other file changes.
C17_OnlyCategorizedDataOfJob ==
    [][ viewer'.event.op \in {"generate", "clear"} =>
          LET loaded == load_jobs_data
              before == JobsOf(loaded)
              after == JobsOf(viewer'.data)
              k == viewer'.event.job_id
              result == viewer'.event.outcome
          IN  /\ \A p \in Paths \ {JOBS_FILE} : files'[p] = files[p]
              /\ IF result.exc = "none"
                 THEN /\ \E i \in 1..Len(before) :
                            /\ before[i].id = k
                            /\ OnlyCategorizedDataAt(before, after, i)
                            /\ after[i].CategorizedData = result.ret
                      /\ Rest(viewer'.data) = Rest(loaded)
                      /\ files'[JOBS_FILE] = viewer'.data
                 ELSE /\ viewer'.data = loaded
                      /\ files' = files ]_vars

\* metadata was generated for a job of a document with other jobs that have
\* metadata of their own, and the file holds it
C17_Witness ==
    /\ viewer.event.op = "generate"
    /\ viewer.event.outcome.exc = "none"
    /\ "jobs" \in DOMAIN viewer.data
    /\ Len(viewer.data.jobs) = 3
    /\ CategorizedDataOf(viewer.data.jobs[3]) = Dict(ObjectText)
    /\ CategorizedDataOf(viewer.data.jobs[1]) = Dict(ObjectText)
    /\ CategorizedDataOf(viewer.data.jobs[2]) = None
    /\ files[JOBS_FILE] = viewer.data

====
